---------------------------- MODULE Spec2Model ----------------------------
(***************************************************************************)
(* Model of Dsbda.py, the "Personal Finance Dashboard": a Streamlit script *)
(* over a SQLite file with three tables (users, expenses, budgets).        *)
(*                                                                         *)
(* Streamlit reruns the whole script on every widget interaction, so each  *)
(* action below is ONE run of the script in which one widget was used:     *)
(* the sidebar menu, or one of the four buttons.  A run executes the       *)
(* button's handler and then, if the session is logged in, renders the     *)
(* dashboard (expense table and the three chart tabs) from the tables as   *)
(* the handler left them.                                                  *)
(***************************************************************************)
EXTENDS Integers, Sequences, FiniteSets, TLC

VARIABLES
    users,      \* table users(username, password), rows in insertion order
    expenses,   \* table expenses(username, Date, Category, Description, Amount)
    budgets,    \* table budgets(username, Category, Budget)
    session,    \* st.session_state: logged_in, username
    choice,     \* value of the sidebar selectbox "Menu"
    out         \* what the last run of the script displayed

vars == <<users, expenses, budgets, session, choice, out>>

(***************************************************************************)
(* Bounds and input sets                                                   *)
(***************************************************************************)
\* Total number of rows the three tables may hold together.
MaxRows == 4

Usernames == {"alice", "bob"}
Passwords == {"p", "q"}
\* What the "Set Budget" form holds when its button is pressed: a positive
\* budget for both picked categories and a zero budget (min_value=0.0 admits
\* it) for one.
BudgetInputs ==
    { [category |-> "Food", budget |-> 10],
      [category |-> "Food", budget |-> 0],
      [category |-> "Transport", budget |-> 10] }
\* What the "Add Expense" form holds when its button is pressed: two days of
\* one month and a day two months earlier, in the previous year; two
\* categories; a zero and a positive amount.
ExpenseInputs ==
    { [date |-> [y |-> 2023, m |-> 12, d |-> 20], category |-> "Food",
       desc |-> "lunch", amount |-> 5],
      [date |-> [y |-> 2024, m |-> 2, d |-> 5], category |-> "Food",
       desc |-> "", amount |-> 5],
      [date |-> [y |-> 2024, m |-> 2, d |-> 20], category |-> "Transport",
       desc |-> "bus", amount |-> 5],
      [date |-> [y |-> 2024, m |-> 2, d |-> 5], category |-> "Transport",
       desc |-> "", amount |-> 0] }

menu == <<"Login", "SignUp">>
\* Options of both category selectboxes.
Categories == <<"Food", "Transport", "Shopping", "Health", "Other">>

Range(s) == { s[i] : i \in DOMAIN s }

(***************************************************************************)
(* Password hashing: hashlib.sha256(password.encode()).hexdigest(), given  *)
(* by its value on each password of the model.                             *)
(***************************************************************************)
hash_password(password) ==
    CASE password = "p" ->
           "148de9c5a7a44d19e56cd9ae1a554bf67847afb0c58f6e12fa29ac7ddfca9940"
      [] password = "q" ->
           "8e35c2cd3bf6641bdb0e2050b76932cbb2e6034a0ddacc1d9bea82a6ba57f7cf"
      [] password = "" ->
           "e3b0c44298fc1c149afbf4c8996fb92427ae41e4649b934ca495991b7852b855"

(***************************************************************************)
(* Authentication                                                          *)
(***************************************************************************)
\* Variant of add_user: the insert is skipped when the username has a row.
add_user_unique(tbl, username, password) ==
    IF \E i \in DOMAIN tbl : tbl[i].username = username
    THEN tbl
    ELSE Append(tbl, [username |-> username, password |-> password])

\* INSERT INTO users(username, password) VALUES (?,?)
add_user(tbl, username, password) ==
    Append(tbl, [username |-> username, password |-> password])

\* Variant of login_user: WHERE username = ? alone.
login_user_by_name(tbl, username, password) ==
    LET rows == SelectSeq(tbl, LAMBDA r : r.username = username)
    IN  IF rows = <<>> THEN <<>> ELSE <<rows[1]>>

\* SELECT * FROM users WHERE username = ? AND password = ?; fetchone():
\* the first matching row, as a sequence of length 1, or <<>> for None.
login_user(tbl, username, password) ==
    LET Match(r) == r.username = username /\ r.password = password
        rows == SelectSeq(tbl, Match)
    IN  IF rows = <<>> THEN <<>> ELSE <<rows[1]>>

(***************************************************************************)
(* date.strftime('%Y-%m-%d') and pd.to_datetime on that text               *)
(***************************************************************************)
DigitChars == <<"0", "1", "2", "3", "4", "5", "6", "7", "8", "9">>

RECURSIVE ZeroPad(_, _)
\* n in decimal, zero-padded to w characters
ZeroPad(n, w) ==
    IF w = 0 THEN <<>>
    ELSE Append(ZeroPad(n \div 10, w - 1), DigitChars[(n % 10) + 1])

strftime(date) ==
    ZeroPad(date.y, 4) \o <<"-">> \o ZeroPad(date.m, 2) \o <<"-">> \o ZeroPad(date.d, 2)

DigitValue(ch) == (CHOOSE i \in DOMAIN DigitChars : DigitChars[i] = ch) - 1

RECURSIVE ParseInt(_)
ParseInt(s) ==
    IF s = <<>> THEN 0
    ELSE 10 * ParseInt(SubSeq(s, 1, Len(s) - 1)) + DigitValue(s[Len(s)])

to_datetime(text) ==
    [y |-> ParseInt(SubSeq(text, 1, 4)),
     m |-> ParseInt(SubSeq(text, 6, 7)),
     d |-> ParseInt(SubSeq(text, 9, 10))]

(***************************************************************************)
(* Expense and budget tables                                               *)
(***************************************************************************)
\* INSERT INTO expenses VALUES (?,?,?,?,?)
add_expense(tbl, username, date, category, desc, amount) ==
    Append(tbl, [username |-> username, Date |-> date, Category |-> category,
                 Description |-> desc, Amount |-> amount])

\* Variant of get_expenses: no WHERE clause.
get_expenses_all(tbl, username) ==
    [i \in DOMAIN tbl |->
        [Date |-> tbl[i].Date, Category |-> tbl[i].Category,
         Description |-> tbl[i].Description, Amount |-> tbl[i].Amount]]

RECURSIVE get_expenses(_, _)
\* SELECT Date, Category, Description, Amount FROM expenses WHERE username=?
get_expenses(tbl, username) ==
    IF tbl = <<>> THEN <<>>
    ELSE LET r == tbl[1]
             rest == get_expenses(Tail(tbl), username)
         IN  IF r.username = username
             THEN <<[Date |-> r.Date, Category |-> r.Category,
                     Description |-> r.Description, Amount |-> r.Amount]>> \o rest
             ELSE rest

\* REPLACE INTO budgets(username, Category, Budget) VALUES (?,?,?).  The
\* table is declared without PRIMARY KEY or UNIQUE column, so no row ever
\* conflicts with the new one and REPLACE inserts.
set_budget(tbl, username, category, budget) ==
    Append(tbl, [username |-> username, Category |-> category, Budget |-> budget])

\* SELECT Category, Budget FROM budgets
get_budgets(tbl) ==
    [i \in DOMAIN tbl |-> [Category |-> tbl[i].Category, Budget |-> tbl[i].Budget]]

(***************************************************************************)
(* Aggregation: the pandas operations of visualize_expenses.  A DataFrame  *)
(* is a sequence of rows (records); a missing value is <<>> and a present  *)
(* one <<v>> until fillna has run.                                         *)
(***************************************************************************)
RECURSIVE SumAmount(_)
SumAmount(rows) ==
    IF rows = <<>> THEN 0 ELSE rows[1].Amount + SumAmount(Tail(rows))

\* The category names in the order a sort puts them.
SortedCategories == <<"Food", "Health", "Other", "Shopping", "Transport">>

\* df.groupby('Category')['Amount'].sum(): one row per category present in
\* df, in sorted key order.
groupby_sum(df) ==
    LET InCat(c) == SelectSeq(df, LAMBDA r : r.Category = c)
        Present(c) == InCat(c) # <<>>
        keys == SelectSeq(SortedCategories, Present)
    IN  [i \in DOMAIN keys |->
            [Category |-> keys[i], Amount |-> SumAmount(InCat(keys[i]))]]

MonthIndex(date) == date.y * 12 + (date.m - 1)

IsLeap(y) == (y % 4 = 0 /\ y % 100 # 0) \/ y % 400 = 0

MonthEnd(y, m) ==
    IF m = 2 THEN (IF IsLeap(y) THEN 29 ELSE 28)
    ELSE IF m \in {4, 6, 9, 11} THEN 30 ELSE 31

\* Variant of resample_M_sum: only the months that have rows, as a groupby
\* on the year-month would give.
resample_no_fill(df) ==
    IF df = <<>> THEN <<>>
    ELSE
    LET parsed == [i \in DOMAIN df |->
                      [Stamp |-> to_datetime(df[i].Date), Amount |-> df[i].Amount]]
        idx == { MonthIndex(parsed[i].Stamp) : i \in DOMAIN parsed }
        lo == CHOOSE a \in idx : \A b \in idx : a <= b
        hi == CHOOSE a \in idx : \A b \in idx : b <= a
        Bin(k) == SelectSeq(parsed, LAMBDA r : MonthIndex(r.Stamp) = k)
        all == [i \in 1..(hi - lo + 1) |->
                  LET k == lo + i - 1
                  IN  [y |-> k \div 12, m |-> (k % 12) + 1,
                       d |-> MonthEnd(k \div 12, (k % 12) + 1),
                       Amount |-> SumAmount(Bin(k))]]
    IN  SelectSeq(all, LAMBDA b : MonthIndex(b) \in idx)

\* df.resample('M', on='Date')['Amount'].sum() after
\* df['Date'] = pd.to_datetime(df['Date']): one bin per calendar month from
\* the month of the earliest row to the month of the latest, labelled by the
\* month's last day; a bin without rows sums to 0.
resample_M_sum(df) ==
    IF df = <<>> THEN <<>>
    ELSE
    LET parsed == [i \in DOMAIN df |->
                      [Stamp |-> to_datetime(df[i].Date), Amount |-> df[i].Amount]]
        idx == { MonthIndex(parsed[i].Stamp) : i \in DOMAIN parsed }
        lo == CHOOSE a \in idx : \A b \in idx : a <= b
        hi == CHOOSE a \in idx : \A b \in idx : b <= a
        Bin(k) == SelectSeq(parsed, LAMBDA r : MonthIndex(r.Stamp) = k)
    IN  [i \in 1..(hi - lo + 1) |->
            LET k == lo + i - 1
            IN  [y |-> k \div 12, m |-> (k % 12) + 1,
                 d |-> MonthEnd(k \div 12, (k % 12) + 1),
                 Amount |-> SumAmount(Bin(k))]]

\* Variant of merge_right: how='inner', only the budget rows whose category
\* has a total.
merge_inner(totals, budget_df) ==
    LET HasTotal(b) == \E i \in DOMAIN totals : totals[i].Category = b.Category
        kept == SelectSeq(budget_df, HasTotal)
    IN  [i \in DOMAIN kept |->
            LET hit == SelectSeq(totals, LAMBDA t : t.Category = kept[i].Category)
            IN  [Category |-> kept[i].Category, Amount |-> <<hit[1].Amount>>,
                 Budget |-> kept[i].Budget]]

\* totals.reset_index().merge(budget_df, on='Category', how='right'): one
\* row per row of budget_df, in budget_df's order; Amount is missing where
\* totals has no row of that category.
merge_right(totals, budget_df) ==
    [i \in DOMAIN budget_df |->
        LET hit == SelectSeq(totals, LAMBDA t : t.Category = budget_df[i].Category)
        IN  [Category |-> budget_df[i].Category,
             Amount |-> IF hit = <<>> THEN <<>> ELSE <<hit[1].Amount>>,
             Budget |-> budget_df[i].Budget]]

\* .fillna(0)
fillna0(merged) ==
    [i \in DOMAIN merged |->
        [Category |-> merged[i].Category,
         Amount |-> IF merged[i].Amount = <<>> THEN 0 ELSE merged[i].Amount[1],
         Budget |-> merged[i].Budget]]

\* merged['Amount'] / merged['Budget'] * 100 on float columns.  The value is
\* kept as the fraction num/den; a zero divisor raises nothing and gives
\* inf for a positive Amount and nan for 0/0.
Percentage(amount, budget) ==
    IF budget # 0 THEN [kind |-> "number", num |-> amount * 100, den |-> budget]
    ELSE IF amount # 0 THEN [kind |-> "inf", num |-> 0, den |-> 0]
    ELSE [kind |-> "nan", num |-> 0, den |-> 0]

with_percentage(merged) ==
    [i \in DOMAIN merged |->
        [Category |-> merged[i].Category, Amount |-> merged[i].Amount,
         Budget |-> merged[i].Budget,
         Percentage |-> Percentage(merged[i].Amount, merged[i].Budget)]]

(***************************************************************************)
(* visualize_expenses(df): what each of the three tabs shows.  A tab is    *)
(* [shows, data]: shows is "chart" with the plotted table as data, or      *)
(* "warning" with no data.  When df is empty the function returns after    *)
(* st.info and no tab exists.                                              *)
(***************************************************************************)
NoTab == [shows |-> "absent", data |-> <<>>]
Warning == [shows |-> "warning", data |-> <<>>]
Chart(data) == [shows |-> "chart", data |-> data]

\* Variant of tab1: the pie is drawn without the test on the sum.
tab1_unchecked(df) == Chart(groupby_sum(df))

tab1(df) ==
    LET category_data == groupby_sum(df)
    IN  IF category_data = <<>> \/ SumAmount(category_data) = 0
        THEN Warning ELSE Chart(category_data)

tab2(df) ==
    LET monthly == resample_M_sum(df)
    IN  IF monthly = <<>> THEN Warning ELSE Chart(monthly)

tab3(df, budget_tbl) ==
    LET budget_df == get_budgets(budget_tbl)
    IN  IF budget_df = <<>> THEN Warning
        ELSE LET merged == fillna0(merge_right(groupby_sum(df), budget_df))
             IN  IF merged = <<>> THEN Warning
                 ELSE Chart(with_percentage(merged))

visualize_expenses(df, budget_tbl) ==
    IF df = <<>>
    THEN [info |-> "No data available for visualization.",
          tab1 |-> NoTab, tab2 |-> NoTab, tab3 |-> NoTab]
    ELSE [info |-> "", tab1 |-> tab1(df), tab2 |-> tab2(df),
          tab3 |-> tab3(df, budget_tbl)]

\* Variant of Dashboard: the budget rows are those of the session's user.
Dashboard_own_budgets(s, expense_tbl, budget_tbl) ==
    IF s.logged_in
    THEN LET expense_df == get_expenses(expense_tbl, s.username)
             own == SelectSeq(budget_tbl, LAMBDA b : b.username = s.username)
         IN  [visible |-> TRUE, sidebar |-> s.username, history |-> expense_df,
              analysis |-> visualize_expenses(expense_df, own)]
    ELSE [visible |-> FALSE, sidebar |-> "", history |-> <<>>,
          analysis |-> [info |-> "", tab1 |-> NoTab, tab2 |-> NoTab, tab3 |-> NoTab]]

\* The main dashboard block: drawn only if st.session_state.logged_in.
Dashboard(s, expense_tbl, budget_tbl) ==
    IF s.logged_in
    THEN LET expense_df == get_expenses(expense_tbl, s.username)
         IN  [visible |-> TRUE, sidebar |-> s.username, history |-> expense_df,
              analysis |-> visualize_expenses(expense_df, budget_tbl)]
    ELSE [visible |-> FALSE, sidebar |-> "", history |-> <<>>,
          analysis |-> [info |-> "", tab1 |-> NoTab, tab2 |-> NoTab, tab3 |-> NoTab]]

\* Output of one run: the st.success / st.error message of the handler that
\* ran (if any) and the dashboard.
Output(msg, s, expense_tbl, budget_tbl) ==
    [msg |-> msg, dash |-> Dashboard(s, expense_tbl, budget_tbl)]

(***************************************************************************)
(* State after the script's first run: the three CREATE TABLE IF NOT       *)
(* EXISTS on a new data.db, the session defaults, the menu on its first    *)
(* option.                                                                 *)
(***************************************************************************)
Init ==
    /\ users = <<>>
    /\ expenses = <<>>
    /\ budgets = <<>>
    /\ session = [logged_in |-> FALSE, username |-> ""]
    /\ choice = menu[1]
    /\ out = Output("", session, expenses, budgets)

RowCount == Len(users) + Len(expenses) + Len(budgets)

\* The user picks another entry of the sidebar menu.
SelectMenu(c) ==
    /\ c # choice
    /\ choice' = c
    /\ UNCHANGED <<users, expenses, budgets, session>>
    /\ out' = Output("", session, expenses, budgets)

\* "Signup" button of the SignUp branch.
Signup(new_user, new_pass) ==
    /\ choice = "SignUp"
    /\ RowCount < MaxRows
    /\ LET hashed_pass == hash_password(new_pass)
       IN  users' = add_user(users, new_user, hashed_pass)
    /\ UNCHANGED <<expenses, budgets, session, choice>>
    /\ out' = Output("Account Created. Go to Login", session, expenses, budgets)

\* Variant of Login: the session is set without looking at the result.
Login_unchecked(user, passwd) ==
    /\ choice = "Login"
    /\ session' = [logged_in |-> TRUE, username |-> user]
    /\ out' = Output("", session', expenses, budgets)
    /\ UNCHANGED <<users, expenses, budgets, choice>>

\* "Login" button of the Login branch.
Login(user, passwd) ==
    /\ choice = "Login"
    /\ UNCHANGED <<users, expenses, budgets, choice>>
    /\ LET hashed == hash_password(passwd)
           result == login_user(users, user, hashed)
       IN  IF result # <<>>
           THEN /\ session' = [logged_in |-> TRUE, username |-> user]
                /\ out' = Output("", session', expenses, budgets)
           ELSE /\ session' = session
                /\ out' = Output("Invalid Credentials", session, expenses, budgets)

\* "Add Expense" button; the form exists only in the dashboard block.
AddExpense(date, category, desc, amount) ==
    /\ session.logged_in
    /\ RowCount < MaxRows
    /\ expenses' = add_expense(expenses, session.username, strftime(date),
                               category, desc, amount)
    /\ UNCHANGED <<users, budgets, session, choice>>
    /\ out' = Output("Expense Added", session, expenses', budgets)

\* "Set Budget" button; the form exists only in the dashboard block.
SetBudget(cat, budget_amt) ==
    /\ session.logged_in
    /\ RowCount < MaxRows
    /\ budgets' = set_budget(budgets, session.username, cat, budget_amt)
    /\ UNCHANGED <<users, expenses, session, choice>>
    /\ out' = Output("Budget Set", session, expenses, budgets')

Next ==
    \/ \E c \in Range(menu) : SelectMenu(c)
    \/ \E u \in Usernames, p \in Passwords : Signup(u, p)
    \/ \E u \in Usernames, p \in Passwords : Login(u, p)
    \/ \E e \in ExpenseInputs : AddExpense(e.date, e.category, e.desc, e.amount)
    \/ \E b \in BudgetInputs : SetBudget(b.category, b.budget)

Spec == Init /\ [][Next]_vars

(***************************************************************************)
(* Properties                                                              *)
(***************************************************************************)
\* authenticate(u, p): hash_password then login_user finds a row.
Authenticates(tbl, u, p) == login_user(tbl, u, hash_password(p)) # <<>>

\* C1: once Signup(u, p) has run, a login with (u, p) finds a row: right
\* after the signup, and after every later run of the script, whatever it
\* does.
C1_RegisteredAuthenticates ==
    [][ \A u \in Usernames, p \in Passwords :
          /\ Signup(u, p) => Authenticates(users', u, p)
          /\ Authenticates(users, u, p) => Authenticates(users', u, p) ]_vars

\* The same username was registered under both passwords and that user is
\* logged in.
C1_Witness ==
    /\ session.logged_in
    /\ \E i, j \in DOMAIN users :
          /\ i < j
          /\ users[i].username = session.username
          /\ users[j].username = session.username
          /\ users[i].password # users[j].password

\* C2: a login with (u, p) finds no row unless a signup of that same u with
\* a password of the same hash has run: nothing authenticates at the start,
\* and (u, p) starts to authenticate only in a run that signs up u with such
\* a password.  A login that finds no row shows the error and leaves the
\* session as it was.
C2_UnregisteredRejected ==
    /\ \A u \in Usernames, p \in Passwords : ~Authenticates(users, u, p)
    /\ [][ \A u \in Usernames, p \in Passwords :
             /\ (~Authenticates(users, u, p) /\ Authenticates(users', u, p))
                   => \E p2 \in Passwords :
                         /\ hash_password(p2) = hash_password(p)
                         /\ Signup(u, p2)
             /\ ~Authenticates(users, u, p) =>
                   \/ /\ session' = session
                      /\ out'.msg = "Invalid Credentials"
                   \/ ~Login(u, p) ]_vars

\* One user is registered, under one password, and a login was rejected
\* with nobody logged in: the attempt used a wrong password for that user or
\* the other, unregistered, username.
C2_Witness ==
    /\ Len(users) = 1
    /\ ~session.logged_in
    /\ out.msg = "Invalid Credentials"
    /\ out.dash.visible = FALSE

\* The row of get_expenses for what the Add Expense form held.
ListedRow(e) ==
    [Date |-> strftime(e.date), Category |-> e.category,
     Description |-> e.desc, Amount |-> e.amount]

\* C3: list(u) starts empty; a run that records an expense for u appends
\* exactly that expense to the end of list(u), with a Date that reads back
\* as the date picked; every other run (records of other users, budgets,
\* signups, logins) leaves list(u) as it was.  So after N records for u the
\* list holds the N recorded rows in insertion order.
C3_ListIsRecordedInOrder ==
    /\ \A u \in Usernames : get_expenses(expenses, u) = <<>>
    /\ [][ \A u \in Usernames :
             LET before == get_expenses(expenses, u)
                 after == get_expenses(expenses', u)
                 Records(e) == /\ session.username = u
                               /\ AddExpense(e.date, e.category, e.desc, e.amount)
             IN  /\ \A e \in ExpenseInputs :
                       Records(e) => /\ after = Append(before, ListedRow(e))
                                     /\ to_datetime(after[Len(after)].Date) = e.date
                 /\ (~ \E e \in ExpenseInputs : Records(e)) => after = before ]_vars

\* Two users have recorded expenses, and the dashboard shows the logged-in
\* user's list with a single row.
C3_Witness ==
    /\ \A u \in Usernames : Len(get_expenses(expenses, u)) = 1
    /\ out.dash.visible
    /\ Len(out.dash.history) = 1
    /\ out.msg = "Expense Added"

\* C4: the budgets table holds at most one row per category.
C4_OneRowPerCategory ==
    \A i, j \in DOMAIN budgets :
        budgets[i].Category = budgets[j].Category => i = j

\* The dashboard of the last run showed the three tabs.
TabsShown == out.dash.visible /\ out.dash.history # <<>>

\* C5: in the Budget vs Actual table, a row whose budget is 0 carries an
\* explicit "undefined" signal, not inf or nan.
C5_ZeroBudgetSignalled ==
    \A k \in DOMAIN out.dash.analysis.tab3.data :
        LET r == out.dash.analysis.tab3.data[k]
        IN  r.Budget = 0 => r.Percentage.kind = "undefined"

RECURSIVE SpentUpTo(_, _, _, _)
\* What user u spent on category c in the first n rows of the expenses table.
SpentUpTo(tbl, u, c, n) ==
    IF n = 0 THEN 0
    ELSE SpentUpTo(tbl, u, c, n - 1)
         + (IF tbl[n].username = u /\ tbl[n].Category = c THEN tbl[n].Amount ELSE 0)

\* C6: with expenses of the viewer and budget rows present, the Budget vs
\* Actual table has an entry for exactly the categories that have a budget
\* row; an entry's spend is what the viewer spent on its category (0 if
\* nothing); and for a non-zero budget its percentage is spend / budget * 100.
C6_UtilizationIsRightJoin ==
    (TabsShown /\ budgets # <<>>) =>
        LET t == out.dash.analysis.tab3
        IN  /\ t.shows = "chart"
            /\ { t.data[k].Category : k \in DOMAIN t.data }
                  = { budgets[i].Category : i \in DOMAIN budgets }
            /\ \A k \in DOMAIN t.data :
                  LET r == t.data[k]
                  IN  /\ r.Amount = SpentUpTo(expenses, session.username,
                                              r.Category, Len(expenses))
                      /\ \E i \in DOMAIN budgets :
                            /\ budgets[i].Category = r.Category
                            /\ budgets[i].Budget = r.Budget
                      /\ r.Budget # 0 =>
                            /\ r.Percentage.kind = "number"
                            /\ r.Percentage.den # 0
                            /\ r.Percentage.num * r.Budget
                                  = r.Amount * 100 * r.Percentage.den

\* Budgets for Food and Transport, spend on Food only, half its budget:
\* Food shows 50 and Transport 0.
C6_Witness ==
    /\ TabsShown
    /\ \A i \in DOMAIN out.dash.history : out.dash.history[i].Category = "Food"
    /\ LET t == out.dash.analysis.tab3
       IN  /\ Len(t.data) = 2
           /\ \E k \in DOMAIN t.data :
                 /\ t.data[k].Category = "Food"
                 /\ t.data[k].Percentage.kind = "number"
                 /\ t.data[k].Percentage.num = 50 * t.data[k].Percentage.den
           /\ \E k \in DOMAIN t.data :
                 /\ t.data[k].Category = "Transport"
                 /\ t.data[k].Amount = 0
                 /\ t.data[k].Percentage.kind = "number"
                 /\ t.data[k].Percentage.num = 0

\* The stored Date text of a row lies in month m of year y: it starts with
\* the text of that year and month.
InMonth(text, y, m) ==
    SubSeq(text, 1, 7) = SubSeq(strftime([y |-> y, m |-> m, d |-> 1]), 1, 7)

RECURSIVE MonthSpendUpTo(_, _, _, _, _)
\* What user u spent in month m of year y in the first n rows of the table.
MonthSpendUpTo(tbl, u, y, m, n) ==
    IF n = 0 THEN 0
    ELSE MonthSpendUpTo(tbl, u, y, m, n - 1)
         + (IF tbl[n].username = u /\ InMonth(tbl[n].Date, y, m)
            THEN tbl[n].Amount ELSE 0)

\* The months in which user u has an expense.
YearsPicked == { e.date.y : e \in ExpenseInputs }
ExpenseMonths(u) ==
    { ym \in YearsPicked \X (1..12) :
        \E i \in DOMAIN expenses :
            expenses[i].username = u /\ InMonth(expenses[i].Date, ym[1], ym[2]) }

\* C7 as stated: the buckets of the trend are exactly the months in which
\* the user has an expense, each with the sum of that month's amounts, in
\* ascending order.
C7_BucketsAreExpenseMonths ==
    TabsShown =>
        LET t == out.dash.analysis.tab2
        IN  /\ t.shows = "chart"
            /\ { <<t.data[k].y, t.data[k].m>> : k \in DOMAIN t.data }
                  = ExpenseMonths(session.username)
            /\ \A k \in DOMAIN t.data :
                  t.data[k].Amount = MonthSpendUpTo(expenses, session.username,
                                        t.data[k].y, t.data[k].m, Len(expenses))
            /\ \A k \in 1..(Len(t.data) - 1) :
                  MonthIndex(t.data[k]) < MonthIndex(t.data[k + 1])

\* C7 amended: the trend has one bucket for every calendar month from the
\* earliest to the latest month in which the user has an expense, both
\* included, in ascending order; a bucket's value is the sum of the amounts
\* of the user's expenses dated in that month, which is 0 for a month of
\* that range without expenses.
C7_BucketsAreMonthRange ==
    TabsShown =>
        LET t == out.dash.analysis.tab2
            n == Len(t.data)
            months == ExpenseMonths(session.username)
        IN  /\ t.shows = "chart"
            /\ n >= 1
            /\ <<t.data[1].y, t.data[1].m>> \in months
            /\ <<t.data[n].y, t.data[n].m>> \in months
            /\ \A ym \in months :
                  \E k \in DOMAIN t.data : <<t.data[k].y, t.data[k].m>> = ym
            /\ \A k \in 1..(n - 1) :
                  MonthIndex(t.data[k + 1]) = MonthIndex(t.data[k]) + 1
            /\ \A k \in DOMAIN t.data :
                  /\ t.data[k].m \in 1..12
                  /\ t.data[k].Amount = MonthSpendUpTo(expenses, session.username,
                                           t.data[k].y, t.data[k].m, Len(expenses))

\* The later month was recorded first, the months are not adjacent, and the
\* trend runs from the earlier to the later with an empty month between.
C7_Witness ==
    /\ TabsShown
    /\ Len(out.dash.history) = 2
    /\ MonthIndex(to_datetime(out.dash.history[2].Date))
          < MonthIndex(to_datetime(out.dash.history[1].Date))
    /\ LET t == out.dash.analysis.tab2
       IN  /\ Len(t.data) = 3
           /\ t.data[1].Amount > 0
           /\ t.data[2].Amount = 0
           /\ t.data[3].Amount > 0

\* The sum of the Amount column of the viewer's list.
ListTotal == SpentUpTo([i \in DOMAIN out.dash.history |->
                          [username |-> "", Category |-> "",
                           Amount |-> out.dash.history[i].Amount]],
                       "", "", Len(out.dash.history))

\* C8: with an empty list the dashboard shows the "no data" notice and no
\* tab at all; with a non-empty list whose amounts sum to 0 the category tab
\* shows its warning and no table, and with a positive sum it shows the
\* table.
C8_NoDataSignalled ==
    out.dash.visible =>
        LET a == out.dash.analysis
        IN  /\ out.dash.history = <<>> =>
                  /\ a.info = "No data available for visualization."
                  /\ a.tab1 = NoTab /\ a.tab2 = NoTab /\ a.tab3 = NoTab
            /\ out.dash.history # <<>> =>
                  /\ a.info = ""
                  /\ ListTotal = 0 => (a.tab1.shows = "warning" /\ a.tab1.data = <<>>)
                  /\ ListTotal > 0 => (a.tab1.shows = "chart" /\ a.tab1.data # <<>>)

\* The user's first expense, of amount 0, was just added: the list was empty
\* before this run and now is non-empty with total 0.
C8_Witness ==
    /\ out.msg = "Expense Added"
    /\ Len(out.dash.history) = 1
    /\ out.dash.history[1].Amount = 0
    /\ out.dash.analysis.tab1.shows = "warning"
    /\ out.dash.analysis.tab2.shows = "chart"

\* C9: the budget rows of the Budget vs Actual table are all rows of the
\* budgets table, in its order, whoever set them and whoever is logged in.
C9_BudgetsAreGlobal ==
    TabsShown =>
        LET t == out.dash.analysis.tab3
        IN  /\ Len(t.data) = Len(budgets)
            /\ \A i \in DOMAIN budgets :
                  /\ t.data[i].Category = budgets[i].Category
                  /\ t.data[i].Budget = budgets[i].Budget

\* A budget set by another user is in the viewer's table.
C9_Witness ==
    /\ TabsShown
    /\ out.dash.analysis.tab3.shows = "chart"
    /\ \E i \in DOMAIN budgets : budgets[i].username # session.username

\* tbl2 is tbl with one row appended, and that row is of user u.
AppendedBy(tbl, tbl2, u) ==
    /\ Len(tbl2) = Len(tbl) + 1
    /\ SubSeq(tbl2, 1, Len(tbl)) = tbl
    /\ tbl2[Len(tbl2)].username = u

\* C10: the session starts logged out; it changes only in a run whose login
\* finds a row, and then to logged in as that login's username; such a
\* login always sets it; a login that finds no row and a signup leave it
\* alone; logged_in never returns to false; and the expenses and budgets
\* tables change only while logged in, by one appended row of the session's
\* username.
C10_SessionGate ==
    /\ session = [logged_in |-> FALSE, username |-> ""]
    /\ [][ /\ session.logged_in => session'.logged_in
           /\ session' # session =>
                 \E u \in Usernames, p \in Passwords :
                    /\ Authenticates(users, u, p)
                    /\ session' = [logged_in |-> TRUE, username |-> u]
                    /\ Login(u, p)
           /\ \A u \in Usernames, p \in Passwords :
                 /\ Authenticates(users, u, p) =>
                       \/ session' = [logged_in |-> TRUE, username |-> u]
                       \/ ~Login(u, p)
                 /\ ~Authenticates(users, u, p) =>
                       (session' = session \/ ~Login(u, p))
                 /\ session' = session \/ ~Signup(u, p)
           /\ expenses' # expenses =>
                 session.logged_in /\ AppendedBy(expenses, expenses', session.username)
           /\ budgets' # budgets =>
                 session.logged_in /\ AppendedBy(budgets, budgets', session.username)
         ]_vars

\* A second user logged in after the first one wrote rows, and wrote one too.
C10_Witness ==
    /\ session.logged_in
    /\ \E i \in DOMAIN expenses : expenses[i].username # session.username
    /\ \E i \in DOMAIN budgets : budgets[i].username = session.username

=============================================================================
